---- MODULE Spec2Model ----
(***************************************************************************)
(* CodeSprints/AutomaticDataDownloads.ipynb as a state machine.            *)
(*                                                                         *)
(* The state is the kernel's namespace (the names the code cells bind),    *)
(* the process-wide working directory, the local file system, and the      *)
(* notebook session (execution counter, position of a top-to-bottom run,   *)
(* the outcome of the cell that ran last).  There is one action per code   *)
(* cell that touches this state.                                           *)
(***************************************************************************)
EXTENDS Integers, Sequences, FiniteSets, TLC

VARIABLES http_dir, dataset, lev_type, variable, time, file_type,
          filepaths, url, filename,
          cwd, dirs, files, listing,
          mode, pc, count, last, calls

names == <<http_dir, dataset, lev_type, variable, time, file_type,
           filepaths, url, filename>>
vars == <<http_dir, dataset, lev_type, variable, time, file_type,
          filepaths, url, filename, cwd, dirs, files, listing,
          mode, pc, count, last, calls>>

---------------------------------------------------------------------------
(* Bounds of the model.                                                    *)
MaxExec == 5
MaxLen == 3
MaxVer == 2

---------------------------------------------------------------------------
(* Python values: a name is unbound, or bound to a str or to a pandas      *)
(* Series (a sequence under the default index 0..n-1).                     *)
Unbound == [kind |-> "unbound", v |-> ""]
PyStr(s) == [kind |-> "str", v |-> s]
Series(q) == [kind |-> "Series", v |-> q]
TypeError == [kind |-> "TypeError", v |-> ""]

IsBound(x) == x.kind # "unbound"

(* range(a, b) and list(...) of it: a, a+1, ..., b-1.                      *)
range(a, b) == [i \in 1..(IF b > a THEN b - a ELSE 0) |-> a + i - 1]

(* str(n) of a non-negative int: its decimal digits, no leading zeros.     *)
Digit(d) ==
    CASE d = 0 -> "0" [] d = 1 -> "1" [] d = 2 -> "2" [] d = 3 -> "3"
      [] d = 4 -> "4" [] d = 5 -> "5" [] d = 6 -> "6" [] d = 7 -> "7"
      [] d = 8 -> "8" [] d = 9 -> "9"

RECURSIVE str(_)
str(n) == IF n < 10 THEN Digit(n) ELSE str(n \div 10) \o Digit(n % 10)

(* Series.apply(str): element by element, index kept.                      *)
apply_str(s) == Series([i \in 1..Len(s.v) |-> str(s.v[i])])

(* a + b on str and Series operands: str + str concatenates, a str and a   *)
(* Series broadcast the str over the elements, in operand order.           *)
AddSwapped(a, b) ==
    CASE a.kind = "str" /\ b.kind = "str" -> PyStr(b.v \o a.v)
      [] a.kind = "str" /\ b.kind = "Series" ->
            Series([i \in 1..Len(b.v) |-> b.v[i] \o a.v])
      [] a.kind = "Series" /\ b.kind = "str" ->
            Series([i \in 1..Len(a.v) |-> b.v \o a.v[i]])
      [] OTHER -> TypeError

Add(a, b) ==
    CASE a.kind = "str" /\ b.kind = "str" -> PyStr(a.v \o b.v)
      [] a.kind = "str" /\ b.kind = "Series" ->
            Series([i \in 1..Len(b.v) |-> a.v \o b.v[i]])
      [] a.kind = "Series" /\ b.kind = "str" ->
            Series([i \in 1..Len(a.v) |-> a.v[i] \o b.v])
      [] OTHER -> TypeError

(* http_dir + dataset + "/" + lev_type + "/" + variable + time + file_type *)
(* evaluated left to right, as Python does.                                *)
BuildPathsNoToken(h, d, l, v, t, f) ==
    Add(Add(Add(Add(Add(Add(h, d), PyStr("/")), l), PyStr("/")), v), f)

BuildPathsByFiles(h, d, l, v, t, f) ==
    Add(Add(Add(Add(Add(Add(Add(IF files = << >> THEN h ELSE PyStr("file:///"), d),
        PyStr("/")), l), PyStr("/")), v), t), f)

BuildPaths(h, d, l, v, t, f) ==
    Add(Add(Add(Add(Add(Add(Add(h, d), PyStr("/")), l), PyStr("/")), v), t), f)

(* variable + time + file_type                                             *)
LocalNameNoToken(v, t, f) ==
    IF t.kind = "Series" THEN Series([i \in 1..Len(t.v) |-> v.v \o f.v])
                         ELSE Add(v, f)

LocalName(v, t, f) == Add(Add(v, t), f)

---------------------------------------------------------------------------
(* The literals of the notebook's cells.                                   *)
CodeSprintsDir == "C:\\Users\\sarah\\Desktop\\EnvDatSci\\EnvDatSci\\CodeSprints"
ProjectDir == "C:\\Users\\sarah\\Desktop\\EnvDatSci\\project"
DataDir == "C:\\Users\\sarah\\Desktop\\EnvDatSci\\project\\data"

NotebookTemplateNoSlash ==
    [http_dir |-> "https://downloads.psl.noaa.gov/Datasets",
     dataset |-> "ncep.reanalysis.dailyavgs",
     lev_type |-> "surface",
     variable |-> "air.sig995.",
     file_type |-> ".nc"]

NotebookTemplate ==
    [http_dir |-> "https://downloads.psl.noaa.gov/Datasets/",
     dataset |-> "ncep.reanalysis.dailyavgs",
     lev_type |-> "surface",
     variable |-> "air.sig995.",
     file_type |-> ".nc"]
NotebookTime == "2010"
NotebookYears == range(1965, 1970)

---------------------------------------------------------------------------
(* The local file system: files maps <<directory, name>> to a content.     *)
(* A content records the URL it was read from, the version the server      *)
(* held, and whether the whole body was written.                           *)
Content(u, ver, whole) == [url |-> u, ver |-> ver, whole |-> whole]
NoFiles == << >>

WriteFileWiping(fs, key, c) == [k \in {key} |-> c]

WriteFile(fs, key, c) ==
    [k \in DOMAIN fs \cup {key} |-> IF k = key THEN c ELSE fs[k]]

(* urllib.request.urlretrieve(url, filename) for str arguments.  It opens  *)
(* the URL (URLError: host unreachable, DNS, timeout, HTTP 404), then      *)
(* opens filename, relative to the working directory, for writing          *)
(* (PermissionError), which truncates it, copies the body block by block,  *)
(* and raises ContentTooShortError after the copy when fewer bytes came    *)
(* than the response announced.                                            *)
Outcomes == {"ok", "URLError", "PermissionError", "ContentTooShortError"}

urlretrieveInStartDir(fs, dir, u, fn, outcome, ver) ==
    CASE outcome = "ok" ->
            WriteFile(fs, <<CodeSprintsDir, fn>>, Content(u, ver, TRUE))
      [] outcome = "ContentTooShortError" ->
            WriteFile(fs, <<CodeSprintsDir, fn>>, Content(u, ver, FALSE))
      [] OTHER -> fs

urlretrieve(fs, dir, u, fn, outcome, ver) ==
    CASE outcome = "ok" -> WriteFile(fs, <<dir, fn>>, Content(u, ver, TRUE))
      [] outcome = "ContentTooShortError" ->
            WriteFile(fs, <<dir, fn>>, Content(u, ver, FALSE))
      [] OTHER -> fs

(* os.listdir(): the names in the working directory.                       *)
listdir(fs, dir) == {k[2] : k \in {x \in DOMAIN fs : x[1] = dir}}

---------------------------------------------------------------------------
(* The session.  In a top-to-bottom run ("runall") the cells run in        *)
(* order and the run stops at the first cell that raises; in an            *)
(* interactive session any cell may be run at any time.                    *)
CanRun(k) == IF mode = "runall" THEN pc = k ELSE count < MaxExec

Ran(cell, k, outcome) ==
    /\ last' = [cell |-> cell, outcome |-> outcome]
    /\ count' = count + 1
    /\ pc' = IF mode = "runall" THEN (IF outcome = "ok" THEN k + 1 ELSE 0) ELSE pc
    /\ mode' = mode

TemplateBound ==
    /\ IsBound(http_dir) /\ IsBound(dataset) /\ IsBound(lev_type)
    /\ IsBound(variable) /\ IsBound(file_type)

(* os.chdir(target)                                                        *)
Chdir(cell, k, target) ==
    /\ CanRun(k)
    /\ cwd' = IF target \in dirs THEN target ELSE cwd
    /\ Ran(cell, k, IF target \in dirs THEN "ok" ELSE "FileNotFoundError")
    /\ UNCHANGED <<names, dirs, files, listing, calls>>

ProjectCell == Chdir("project", 1, ProjectDir)
Task2Cell == Chdir("task2", 2, DataDir)
Task3Cell == Chdir("task3", 3, DataDir)

(* The cell that binds the six parts and filepaths for one time token.     *)
PathsCellWith(tpl, tok) ==
    /\ CanRun(4)
    /\ http_dir' = PyStr(tpl.http_dir)
    /\ dataset' = PyStr(tpl.dataset)
    /\ lev_type' = PyStr(tpl.lev_type)
    /\ variable' = PyStr(tpl.variable)
    /\ time' = PyStr(tok)
    /\ file_type' = PyStr(tpl.file_type)
    /\ filepaths' = BuildPaths(http_dir', dataset', lev_type', variable',
                               time', file_type')
    /\ calls' = calls \cup
         {[args |-> <<http_dir', dataset', lev_type', variable', time', file_type'>>,
           result |-> filepaths']}
    /\ Ran("paths", 4, "ok")
    /\ UNCHANGED <<url, filename, cwd, dirs, files, listing>>

PathsCell == PathsCellWith(NotebookTemplate, NotebookTime)

(* The download cell.                                                      *)
DownloadCell ==
    /\ CanRun(5)
    /\ UNCHANGED <<http_dir, dataset, lev_type, variable, time, file_type,
                   filepaths, cwd, dirs, listing, calls>>
    /\ IF ~IsBound(filepaths)
       THEN /\ Ran("download", 5, "NameError")
            /\ UNCHANGED <<url, filename, files>>
       ELSE /\ url' = filepaths
            /\ IF ~(IsBound(variable) /\ IsBound(time) /\ IsBound(file_type))
               THEN /\ Ran("download", 5, "NameError")
                    /\ UNCHANGED <<filename, files>>
               ELSE LET fn == LocalName(variable, time, file_type) IN
                    IF fn.kind = "TypeError"
                    THEN /\ Ran("download", 5, "TypeError")
                         /\ UNCHANGED <<filename, files>>
                    ELSE /\ filename' = fn
                         /\ IF filepaths.kind = "str" /\ fn.kind = "str"
                            THEN \E o \in Outcomes, ver \in 1..MaxVer :
                                   /\ files' = urlretrieve(files, cwd, filepaths.v,
                                                           fn.v, o, ver)
                                   /\ Ran("download", 5, o)
                            ELSE /\ Ran("download", 5, "TypeError")
                                 /\ UNCHANGED files

(* os.listdir()                                                            *)
ListdirCell ==
    /\ CanRun(6)
    /\ listing' = listdir(files, cwd)
    /\ Ran("listdir", 6, "ok")
    /\ UNCHANGED <<names, cwd, dirs, files, calls>>

(* The cell that rebinds time to the years as a Series of str and          *)
(* filepaths to the Series of their URLs.                                  *)
SeriesCellWith(years) ==
    /\ CanRun(7)
    /\ time' = apply_str(Series(years))
    /\ UNCHANGED <<http_dir, dataset, lev_type, variable, file_type,
                   url, filename, cwd, dirs, files, listing>>
    /\ IF TemplateBound
       THEN /\ filepaths' = BuildPaths(http_dir, dataset, lev_type, variable,
                                       time', file_type)
            /\ calls' = calls \cup
                 {[args |-> <<http_dir, dataset, lev_type, variable, time', file_type>>,
                   result |-> filepaths']}
            /\ Ran("series", 7, "ok")
       ELSE /\ Ran("series", 7, "NameError")
            /\ UNCHANGED <<filepaths, calls>>

SeriesCell == SeriesCellWith(NotebookYears)

---------------------------------------------------------------------------
(* The notebook as written.                                                *)
Init ==
    /\ http_dir = Unbound /\ dataset = Unbound /\ lev_type = Unbound
    /\ variable = Unbound /\ time = Unbound /\ file_type = Unbound
    /\ filepaths = Unbound /\ url = Unbound /\ filename = Unbound
    /\ cwd = CodeSprintsDir
    /\ dirs \in {{CodeSprintsDir}, {CodeSprintsDir, ProjectDir},
                 {CodeSprintsDir, ProjectDir, DataDir}}
    /\ files = NoFiles
    /\ listing = {}
    /\ mode \in {"runall", "interactive"}
    /\ pc = 1
    /\ count = 0
    /\ last = [cell |-> "none", outcome |-> "none"]
    /\ calls = {}

Next ==
    \/ ProjectCell
    \/ Task2Cell
    \/ Task3Cell
    \/ PathsCell
    \/ DownloadCell
    \/ ListdirCell
    \/ SeriesCell

Spec == Init /\ [][Next]_vars

---------------------------------------------------------------------------
(* The path cells with other literals: the template parts, the time token  *)
(* and the list of years are drawn from the sets below, so that the        *)
(* expressions of the cells are evaluated on more than the notebook's own  *)
(* values.  One session binds the parts, builds a Series of paths and      *)
(* runs the download cell.                                                 *)
SpecExampleTemplate ==
    [http_dir |-> "downloads.psl.noaa.gov",
     dataset |-> "ncep.reanalysis.dailyavgs",
     lev_type |-> "surface",
     variable |-> "air.sig995.",
     file_type |-> ".nc"]
ShortTemplate ==
    [http_dir |-> "ftp://h/", dataset |-> "d", lev_type |-> "s",
     variable |-> "v19", file_type |-> "65"]
EmptyTemplate ==
    [http_dir |-> "", dataset |-> "", lev_type |-> "", variable |-> "",
     file_type |-> ""]

Templates == {NotebookTemplate, SpecExampleTemplate, ShortTemplate, EmptyTemplate}
TimeTokens == {NotebookTime, "", "nc"}
Years == {1965, 1966, 2010, 19, 995}

RECURSIVE SeqsUpTo(_, _)
SeqsUpTo(S, n) ==
    IF n = 0 THEN {<< >>}
    ELSE LET shorter == SeqsUpTo(S, n - 1) IN
         shorter \cup {Append(q, x) : q \in {r \in shorter : Len(r) = n - 1}, x \in S}

YearLists == SeqsUpTo(Years, MaxLen)

InitPaths ==
    /\ http_dir = Unbound /\ dataset = Unbound /\ lev_type = Unbound
    /\ variable = Unbound /\ time = Unbound /\ file_type = Unbound
    /\ filepaths = Unbound /\ url = Unbound /\ filename = Unbound
    /\ cwd = CodeSprintsDir
    /\ dirs = {CodeSprintsDir, ProjectDir, DataDir}
    /\ files = NoFiles
    /\ listing = {}
    /\ mode = "interactive"
    /\ pc = 1
    /\ count = 0
    /\ last = [cell |-> "none", outcome |-> "none"]
    /\ calls = {}

EditedPathsCell ==
    /\ count = 0
    /\ \E tpl \in Templates, tok \in TimeTokens : PathsCellWith(tpl, tok)

EditedSeriesCell ==
    /\ count < 2
    /\ \E years \in YearLists : SeriesCellWith(years)

RerunDownloadCell ==
    /\ count > 0
    /\ count < 3
    /\ DownloadCell

NextPaths ==
    \/ EditedPathsCell
    \/ EditedSeriesCell
    \/ RerunDownloadCell

SpecPaths == InitPaths /\ [][NextPaths]_vars

---------------------------------------------------------------------------
(* Helpers of the properties.                                              *)
Contains(s, t) ==
    \E i \in 1..(Len(s) - Len(t) + 1) : SubSeq(s, i, i + Len(t) - 1) = t

EndsWith(s, t) ==
    /\ Len(t) <= Len(s)
    /\ SubSeq(s, Len(s) - Len(t) + 1, Len(s)) = t

Prefix == http_dir.v \o dataset.v \o "/" \o lev_type.v \o "/" \o variable.v

BoundTo(tpl) ==
    /\ http_dir = PyStr(tpl.http_dir) /\ dataset = PyStr(tpl.dataset)
    /\ lev_type = PyStr(tpl.lev_type) /\ variable = PyStr(tpl.variable)
    /\ file_type = PyStr(tpl.file_type)

(* The tokens and the URLs of one evaluation of the paths expression.      *)
TokensOf(c) == IF c.args[5].kind = "Series" THEN c.args[5].v ELSE <<c.args[5].v>>
UrlsOf(c) == IF c.result.kind = "Series" THEN c.result.v ELSE <<c.result.v>>
TemplateOf(c) == <<c.args[1], c.args[2], c.args[3], c.args[4], c.args[6]>>

NonEmptyTemplate ==
    /\ TemplateBound
    /\ http_dir.v # "" /\ dataset.v # "" /\ lev_type.v # ""
    /\ variable.v # "" /\ file_type.v # ""

(* The files a step created or changed.                                    *)
Touched == {k \in DOMAIN files' : k \notin DOMAIN files \/ files'[k] # files[k]}

FailedDownload == last'.cell = "download" /\ last'.outcome # "ok"

(* The directory a chdir cell names.                                      *)
TargetOf(cell) ==
    CASE cell = "project" -> ProjectDir
      [] cell = "task2" -> DataDir
      [] cell = "task3" -> DataDir
      [] OTHER -> ""

---------------------------------------------------------------------------
(* C1: whenever filepaths is bound it holds one URL per token of time, in  *)
(* the order of the tokens, and the URL of token i is exactly              *)
(* http_dir + dataset + "/" + lev_type + "/" + variable + token i +        *)
(* file_type; nothing is dropped, merged or reordered, and no tokens give  *)
(* no URLs.                                                                *)
C1_OneUrlPerToken ==
    IsBound(filepaths) =>
        IF time.kind = "Series"
        THEN /\ filepaths.kind = "Series"
             /\ Len(filepaths.v) = Len(time.v)
             /\ \A i \in 1..Len(time.v) :
                    filepaths.v[i] = Prefix \o time.v[i] \o file_type.v
        ELSE filepaths = PyStr(Prefix \o time.v \o file_type.v)

(* C1, reached: three tokens, the first repeated as the third, gave three *)
(* URLs, the first repeated as the third.                                  *)
C1_RepeatedTokens ==
    /\ last = [cell |-> "series", outcome |-> "ok"]
    /\ Len(time.v) = 3
    /\ time.v[1] = time.v[3] /\ time.v[1] # time.v[2]
    /\ filepaths.v[1] = filepaths.v[3] /\ filepaths.v[1] # filepaths.v[2]

(* C2, as claimed: under a template with no empty part, a Series of N      *)
(* tokens gives N URLs, URL i contains token i and contains no token of    *)
(* the batch that differs from token i.                                    *)
C2_NoOtherToken ==
    (NonEmptyTemplate /\ time.kind = "Series" /\ IsBound(filepaths)) =>
        /\ filepaths.kind = "Series"
        /\ Len(filepaths.v) = Len(time.v)
        /\ \A i \in 1..Len(time.v) :
             /\ Contains(filepaths.v[i], time.v[i])
             /\ \A j \in 1..Len(time.v) :
                    time.v[j] # time.v[i] => ~Contains(filepaths.v[i], time.v[j])

(* C2, amended: N tokens give N URLs and URL i holds token i right after   *)
(* the fixed prefix and right before file_type; under the notebook's       *)
(* template and four-digit year tokens, URL i contains token j only        *)
(* when token j is token i.                                                *)
C2_OwnTokenInPlace ==
    (time.kind = "Series" /\ IsBound(filepaths)) =>
        /\ filepaths.kind = "Series"
        /\ Len(filepaths.v) = Len(time.v)
        /\ \A i \in 1..Len(time.v) :
             /\ Len(filepaths.v[i]) = Len(Prefix) + Len(time.v[i]) + Len(file_type.v)
             /\ SubSeq(filepaths.v[i], Len(Prefix) + 1, Len(Prefix) + Len(time.v[i]))
                    = time.v[i]
             /\ Contains(filepaths.v[i], time.v[i])
        /\ (BoundTo(NotebookTemplate) /\ \A i \in 1..Len(time.v) : Len(time.v[i]) = 4) =>
             \A i, j \in 1..Len(time.v) :
                Contains(filepaths.v[i], time.v[j]) <=> time.v[j] = time.v[i]

(* C2, reached: three years under the notebook's template.                 *)
C2_YearsUnderNotebookTemplate ==
    /\ BoundTo(NotebookTemplate)
    /\ last = [cell |-> "series", outcome |-> "ok"]
    /\ time = Series(<<"1965", "2010", "1966">>)
    /\ Contains(filepaths.v[2], "2010")
    /\ ~Contains(filepaths.v[2], "1965")

(* C3, as claimed: with http_dir bound to the host name alone and the      *)
(* tokens 1965 and 1966, filepaths holds the two https URLs.               *)
C3_ExampleWithBareHost ==
    (BoundTo(SpecExampleTemplate) /\ time = Series(<<"1965", "1966">>)
        /\ IsBound(filepaths)) =>
        filepaths.v =
          <<"https://downloads.psl.noaa.gov/Datasets/ncep.reanalysis.dailyavgs/surface/air.sig995.1965.nc",
            "https://downloads.psl.noaa.gov/Datasets/ncep.reanalysis.dailyavgs/surface/air.sig995.1966.nc">>

(* C3, amended: with http_dir bound to                                     *)
(* "https://downloads.psl.noaa.gov/Datasets/", as the notebook binds it,   *)
(* the tokens 1965 and 1966 give the two https URLs, and the download      *)
(* cell computes the local names air.sig995.1965.nc and air.sig995.1966.nc.*)
C3_ExampleWithNotebookHost ==
    (BoundTo(NotebookTemplate) /\ time = Series(<<"1965", "1966">>)
        /\ IsBound(filepaths)) =>
        /\ filepaths.v =
            <<"https://downloads.psl.noaa.gov/Datasets/ncep.reanalysis.dailyavgs/surface/air.sig995.1965.nc",
              "https://downloads.psl.noaa.gov/Datasets/ncep.reanalysis.dailyavgs/surface/air.sig995.1966.nc">>
        /\ last.cell = "download" =>
              filename.v = <<"air.sig995.1965.nc", "air.sig995.1966.nc">>

(* C3, reached: the example's tokens under the notebook's template, after  *)
(* the download cell computed the local names.                            *)
C3_ExampleReached ==
    /\ BoundTo(NotebookTemplate)
    /\ time = Series(<<"1965", "1966">>)
    /\ last.cell = "download"
    /\ url = filepaths
    /\ filename.kind = "Series"

C9_InjectiveOnTokens ==
    /\ \A c1, c2 \in calls :
         TemplateOf(c1) = TemplateOf(c2) =>
            \A i \in 1..Len(TokensOf(c1)), j \in 1..Len(TokensOf(c2)) :
               UrlsOf(c1)[i] = UrlsOf(c2)[j] <=> TokensOf(c1)[i] = TokensOf(c2)[j]
    /\ (last.cell = "download" /\ IsBound(filename)) =>
         IF time.kind = "Series"
         THEN /\ Len(filename.v) = Len(time.v)
              /\ Len(url.v) = Len(time.v)
              /\ \A i \in 1..Len(time.v) :
                   /\ EndsWith(url.v[i], filename.v[i])
                   /\ \A j \in 1..Len(time.v) :
                        filename.v[i] = filename.v[j] <=> time.v[i] = time.v[j]
         ELSE EndsWith(url.v, filename.v)

(* C9, reached: three different tokens, one a substring of another and    *)
(* one a substring of the template, with three URLs and three names.      *)
C9_DistinctTokensDistinctNames ==
    /\ last = [cell |-> "download", outcome |-> "TypeError"]
    /\ filename.kind = "Series" /\ url.kind = "Series"
    /\ time.kind = "Series" /\ Len(time.v) = 3
    /\ time.v[1] = "19" /\ time.v[2] = "1965" /\ time.v[3] = "995"
    /\ Cardinality({filename.v[i] : i \in 1..3}) = 3
    /\ Cardinality({url.v[i] : i \in 1..3}) = 3
    /\ Cardinality(calls) = 2

C10_FetchLandsInWorkingDirectory ==
    /\ [][/\ cwd' # cwd =>
               /\ last'.cell \in {"project", "task2", "task3"}
               /\ last'.outcome = "ok"
               /\ cwd' = TargetOf(last'.cell)
          /\ (last'.cell \in {"project", "task2", "task3"} /\ last'.outcome = "ok"
                /\ count' = count + 1) => cwd' = TargetOf(last'.cell)
          /\ \A k \in Touched : k[1] = cwd /\ cwd' = cwd
         ]_vars
    /\ [](mode = "runall" /\ last = [cell |-> "download", outcome |-> "ok"] =>
             /\ cwd = DataDir
             /\ DOMAIN files = {<<DataDir, "air.sig995.2010.nc">>})
    /\ [](mode = "runall" /\ last.cell = "listdir" =>
             /\ cwd = DataDir
             /\ listing = {"air.sig995.2010.nc"})

(* C10, reached: a top-to-bottom run got to the listing.                   *)
C10_ListedAfterRunAll ==
    /\ mode = "runall"
    /\ last = [cell |-> "listdir", outcome |-> "ok"]
    /\ cwd = DataDir
    /\ listing = {"air.sig995.2010.nc"}
    /\ files[<<DataDir, "air.sig995.2010.nc">>].whole

====
